---- MODULE Spec2Model ----
(***************************************************************************)
(* Model of prompt_caching_demo.py: main, demonstrate_caching,            *)
(* interactive_mode and the cost analysis of print_cache_analysis.        *)
(*                                                                         *)
(* Money: the code computes (tokens / 1_000_000) * rate with rates in     *)
(* dollars per million tokens (0.80, 0.08, 1.00).  The model keeps every  *)
(* amount as an exact integer in units of 1e-8 dollar, so a rate is given *)
(* in cents per million tokens (80, 8, 100) and tokens * rate is the cost.*)
(* Binary floating-point rounding of the Python floats is not modelled.   *)
(*                                                                         *)
(* Text: a string is a sequence of one-character strings, so that         *)
(* str.strip() and str.lower() are computed, not assumed.                 *)
(***************************************************************************)
EXTENDS Integers, Sequences, FiniteSets, TLC

VARIABLES
    api_key,              \* ANTHROPIC_API_KEY: "unset" (None), "" or a key
    pc,                   \* position of the single thread of control
    error_reported,       \* main printed the missing-credential error
    choice,               \* the list of mode choices read by main (0 or 1 entry)
    data_loaded,          \* load_sample_data() has been called
    i,                    \* demonstrate_caching: loop index (1-based)
    total_saved,          \* demonstrate_caching: running total of savings
    conversation_history, \* interactive_mode: list of {role, content}
    request_count,        \* interactive_mode: number of requests made
    user_input,           \* interactive_mode: the stripped line last read
    outstanding,          \* requests issued to the API and not yet answered
    sent_messages,        \* the messages= argument of the latest request
    response,             \* what the latest request returned (<<>>: nothing)
    report,               \* what print_cache_analysis computed in this turn
    outcome,              \* how the latest request ended
    attempted,            \* history: prompt numbers sent by demonstrate_caching
    failed,               \* history: prompt numbers whose call raised
    requests_issued,      \* history: requests issued so far
    requests_processed,   \* history: requests whose handling has finished
    reported_sum,         \* history: sum of the savings the reports showed
    last_added,           \* history: what the latest turn added to total_saved
    turns_ok              \* history: interactive turns that updated the history

vars == <<api_key, pc, error_reported, choice, data_loaded, i, total_saved,
          conversation_history, request_count, user_input, outstanding,
          sent_messages, response, report, outcome, attempted, failed,
          requests_issued, requests_processed, reported_sum, last_added,
          turns_ok>>

--------------------------------------------------------------------------
(* Bounds of the model *)

\* Largest value of a token counter in a usage record.
MaxTokens == 1

\* Largest number of requests an interactive session makes.
MaxTurns == 7

--------------------------------------------------------------------------
(* Text *)

Whitespace == {" "}

LowerOf == ("E" :> "e") @@ ("X" :> "x") @@ ("I" :> "i") @@ ("T" :> "t")
           @@ ("Q" :> "q") @@ ("U" :> "u") @@ ("B" :> "b") @@ ("Y" :> "y")
           @@ ("H" :> "h")

\* str.lower()
Lower(s) == [k \in 1..Len(s) |-> IF s[k] \in DOMAIN LowerOf THEN LowerOf[s[k]] ELSE s[k]]

RECURSIVE LStrip(_)
LStrip(s) == IF s # <<>> /\ Head(s) \in Whitespace THEN LStrip(Tail(s)) ELSE s

RECURSIVE RStrip(_)
RStrip(s) ==
    IF s # <<>> /\ s[Len(s)] \in Whitespace
    THEN RStrip(SubSeq(s, 1, Len(s) - 1))
    ELSE s

\* str.strip()
Strip(s) == RStrip(LStrip(s))

\* The lines a user may type at the "You: " prompt.
RawInputs ==
    { <<>>, <<" ">>,
      <<"h", "i">>, <<" ", "H", "i", " ">>,
      <<"e", "x", "i", "t">>, <<"Q", "u", "i", "t">>, <<" ", "B", "Y", "E", " ">> }

\* The lines a user may type at the "Enter your choice (1-3): " prompt.
RawChoices == { <<"1">>, <<" ", "2">>, <<"3">>, <<"7">>, <<>> }

ExitWords == { <<"e", "x", "i", "t">>, <<"q", "u", "i", "t">>, <<"b", "y", "e">> }

ApiKeys == { "unset", "", "sk-key" }

--------------------------------------------------------------------------
(* The external API: usage records and responses *)

Tokens == 0..MaxTokens

\* response.usage.  The two cache counters are attributes that may be missing
\* (the code tests them with hasattr), so they may be absent from the record.
Usages ==
    [input_tokens : Tokens, output_tokens : Tokens]
    \cup [input_tokens : Tokens, output_tokens : Tokens,
          cache_read_input_tokens : Tokens]
    \cup [input_tokens : Tokens, output_tokens : Tokens,
          cache_creation_input_tokens : Tokens]
    \cup [input_tokens : Tokens, output_tokens : Tokens,
          cache_read_input_tokens : Tokens, cache_creation_input_tokens : Tokens]

\* response.content: a list of blocks, which may come back empty.
Contents == { <<>>, << [type |-> "text", text |-> <<"o", "k">>] >> }

Responses == [content : Contents, usage : Usages]

hasattr(obj, name) == name \in DOMAIN obj

--------------------------------------------------------------------------
(* Cost analysis: calculate_token_cost and print_cache_analysis *)

\* Rates in cents per million tokens.
BaseRate == 80
CacheReadRate == 8
CacheWriteRate == 100

calculate_token_cost(tokens, rate_per_million) == tokens * rate_per_million

\* Mutants of the hit test: ">= 0", and the attribute test alone.
IsCacheHitGE(usage) ==
    hasattr(usage, "cache_read_input_tokens") /\ usage.cache_read_input_tokens >= 0

IsCacheHitHasAttr(usage) == hasattr(usage, "cache_read_input_tokens")

IsCacheHit(usage) ==
    hasattr(usage, "cache_read_input_tokens") /\ usage.cache_read_input_tokens > 0

HitCostWithoutCache(usage) ==
    calculate_token_cost(usage.input_tokens + usage.cache_read_input_tokens, BaseRate)

\* Mutant: the cached tokens charged at the cache-write rate.
HitCostWithCacheWriteRate(usage) ==
    calculate_token_cost(usage.input_tokens, BaseRate)
    + calculate_token_cost(usage.cache_read_input_tokens, CacheWriteRate)

HitCostWithCache(usage) ==
    calculate_token_cost(usage.input_tokens, BaseRate)
    + calculate_token_cost(usage.cache_read_input_tokens, CacheReadRate)

HasCacheCreation(usage) ==
    hasattr(usage, "cache_creation_input_tokens")
    /\ usage.cache_creation_input_tokens > 0

\* Mutant: the cache write charged at the base rate.
CreationCostBaseRate(usage) ==
    calculate_token_cost(usage.cache_creation_input_tokens, BaseRate)

CreationCost(usage) ==
    calculate_token_cost(usage.cache_creation_input_tokens, CacheWriteRate)

\* No report: print_cache_analysis has not run in this turn.
NoReport == [ran |-> FALSE, raised |-> FALSE]

\* The values print_cache_analysis computes.  A field is present exactly when
\* the code computes it.  savings_percent = (savings / cost_without_cache) * 100
\* is kept as the exact fraction num/den; the division raises
\* ZeroDivisionError when cost_without_cache is 0.
print_cache_analysis(usage) ==
    IF IsCacheHit(usage)
    THEN LET cost_without_cache == HitCostWithoutCache(usage)
             cost_with_cache == HitCostWithCache(usage)
             savings == cost_without_cache - cost_with_cache
         IN  IF cost_without_cache = 0
             THEN [ran |-> TRUE, raised |-> TRUE, hit |-> TRUE,
                   cost_without_cache |-> cost_without_cache,
                   cost_with_cache |-> cost_with_cache,
                   savings |-> savings]
             ELSE [ran |-> TRUE, raised |-> FALSE, hit |-> TRUE,
                   cost_without_cache |-> cost_without_cache,
                   cost_with_cache |-> cost_with_cache,
                   savings |-> savings,
                   savings_percent |-> [num |-> savings * 100,
                                        den |-> cost_without_cache]]
    ELSE IF HasCacheCreation(usage)
         THEN [ran |-> TRUE, raised |-> FALSE, hit |-> FALSE,
               creation_cost |-> CreationCost(usage)]
         ELSE [ran |-> TRUE, raised |-> FALSE, hit |-> FALSE]

--------------------------------------------------------------------------
(* demonstrate_caching: the savings it tracks itself *)

TestPrompts == << <<"topics">>, <<"views">>, <<"python">>, <<"duration">> >>

TrackBaseRate == 80
TrackCacheRate == 8

TrackHit(usage) ==
    hasattr(usage, "cache_read_input_tokens") /\ usage.cache_read_input_tokens > 0

\* Mutant: the cache cost is not subtracted.
TrackSavingsBaseOnly(usage) ==
    calculate_token_cost(usage.cache_read_input_tokens, TrackBaseRate)

TrackSavings(usage) ==
    LET base_cost == calculate_token_cost(usage.cache_read_input_tokens, TrackBaseRate)
        cache_cost == calculate_token_cost(usage.cache_read_input_tokens, TrackCacheRate)
    IN  base_cost - cache_cost

--------------------------------------------------------------------------
(* interactive_mode: the history window *)

HistoryLimit == 10

Last(s, n) == SubSeq(s, Len(s) - n + 1, Len(s))

\* Mutants: the slice is not assigned back; only the oldest entry is dropped.
TruncateHistoryNoAssign(h) == h

TruncateHistoryDropOldest(h) == IF Len(h) > HistoryLimit THEN Tail(h) ELSE h

\* if len(conversation_history) > 10: conversation_history = conversation_history[-10:]
TruncateHistory(h) == IF Len(h) > HistoryLimit THEN Last(h, HistoryLimit) ELSE h

UpdateHistory(h, text, ai_response) ==
    TruncateHistory(h \o << [role |-> "user", content |-> text],
                            [role |-> "assistant", content |-> ai_response] >>)

--------------------------------------------------------------------------
(* Control *)

\* Mutant: "if ANTHROPIC_API_KEY is None".
KeyMissingIsNone(key) == key = "unset"

\* main: "if not ANTHROPIC_API_KEY" is true of None and of the empty string.
KeyMissing(key) == key \in {"unset", ""}

\* Mutant: the call is fired and not awaited.
AfterCreateNoWait(mode) == IF mode = "demo" THEN "demo_loop" ELSE "chat_input"

\* client.messages.create(...) is a synchronous call: control waits for it.
AfterCreate(mode) == IF mode = "demo" THEN "demo_await" ELSE "chat_await"

\* Mutant: no try/except around the call.
OnCallErrorAbort(mode) == "aborted"

\* except Exception as e: print(...) -- the loop goes on.
OnCallError(mode) == IF mode = "demo" THEN "demo_loop" ELSE "chat_input"

Init ==
    /\ api_key \in ApiKeys
    /\ pc = "start"
    /\ error_reported = FALSE
    /\ choice = <<>>
    /\ data_loaded = FALSE
    /\ i = 1
    /\ total_saved = 0
    /\ conversation_history = <<>>
    /\ request_count = 0
    /\ user_input = <<>>
    /\ outstanding = 0
    /\ sent_messages = <<>>
    /\ response = <<>>
    /\ report = NoReport
    /\ outcome = "none"
    /\ attempted = <<>>
    /\ failed = {}
    /\ requests_issued = 0
    /\ requests_processed = 0
    /\ reported_sum = 0
    /\ last_added = 0
    /\ turns_ok = 0

\* main with the credential missing: report and return.
MainNoKey ==
    /\ pc = "start"
    /\ KeyMissing(api_key)
    /\ error_reported' = TRUE
    /\ pc' = "done"
    /\ UNCHANGED <<api_key, choice, data_loaded, i, total_saved,
                   conversation_history, request_count, user_input, outstanding,
                   sent_messages, response, report, outcome, attempted, failed,
                   requests_issued, requests_processed, reported_sum, last_added,
                   turns_ok>>

\* main with the credential present: read the choice and dispatch on it.
MainChoose(raw) ==
    /\ pc = "start"
    /\ ~KeyMissing(api_key)
    /\ choice' = <<Strip(raw)>>
    /\ pc' = CASE Strip(raw) = <<"1">> -> "demo_init"
               [] Strip(raw) = <<"2">> -> "chat_init"
               [] OTHER -> "done"
    /\ UNCHANGED <<api_key, error_reported, data_loaded, i, total_saved,
                   conversation_history, request_count, user_input, outstanding,
                   sent_messages, response, report, outcome, attempted, failed,
                   requests_issued, requests_processed, reported_sum, last_added,
                   turns_ok>>

\* load_sample_data() raises (no data file): nothing catches it.
LoadFails ==
    /\ pc \in {"demo_init", "chat_init"}
    /\ data_loaded' = TRUE
    /\ pc' = "aborted"
    /\ UNCHANGED <<api_key, error_reported, choice, i, total_saved,
                   conversation_history, request_count, user_input, outstanding,
                   sent_messages, response, report, outcome, attempted, failed,
                   requests_issued, requests_processed, reported_sum, last_added,
                   turns_ok>>

\* demonstrate_caching up to the loop.
DemoInit ==
    /\ pc = "demo_init"
    /\ data_loaded' = TRUE
    /\ total_saved' = 0
    /\ i' = 1
    /\ pc' = "demo_loop"
    /\ UNCHANGED <<api_key, error_reported, choice,
                   conversation_history, request_count, user_input, outstanding,
                   sent_messages, response, report, outcome, attempted, failed,
                   requests_issued, requests_processed, reported_sum, last_added,
                   turns_ok>>

\* One iteration up to the call: the request for prompt i goes out.
DemoIssue ==
    /\ pc = "demo_loop"
    /\ i <= Len(TestPrompts)
    /\ attempted' = Append(attempted, i)
    /\ sent_messages' = << [role |-> "user", content |-> TestPrompts[i]] >>
    /\ outstanding' = outstanding + 1
    /\ requests_issued' = requests_issued + 1
    /\ response' = <<>>
    /\ report' = NoReport
    /\ outcome' = "pending"
    /\ last_added' = 0
    /\ pc' = AfterCreate("demo")
    /\ UNCHANGED <<api_key, error_reported, choice, data_loaded, i, total_saved,
                   conversation_history, request_count, user_input, failed,
                   requests_processed, reported_sum, turns_ok>>

\* The call raises: the except clause prints and the loop goes on.
DemoCallFails ==
    /\ pc = "demo_await"
    /\ outstanding' = outstanding - 1
    /\ outcome' = "error"
    /\ failed' = failed \cup {i}
    /\ requests_processed' = requests_processed + 1
    /\ i' = i + 1
    /\ pc' = OnCallError("demo")
    /\ UNCHANGED <<api_key, error_reported, choice, data_loaded, total_saved,
                   conversation_history, request_count, user_input,
                   sent_messages, response, report, attempted,
                   requests_issued, reported_sum, last_added, turns_ok>>

\* The call returns: display, analysis, savings update.
DemoCallReturns(resp) ==
    /\ pc = "demo_await"
    /\ outstanding' = outstanding - 1
    /\ response' = <<resp>>
    /\ requests_processed' = requests_processed + 1
    /\ i' = i + 1
    /\ IF resp.content = <<>>
       THEN \* response.content[0] raises IndexError
            /\ outcome' = "bad_response"
            /\ pc' = OnCallError("demo")
            /\ UNCHANGED <<report, total_saved, last_added, reported_sum>>
       ELSE LET r == print_cache_analysis(resp.usage)
            IN  /\ report' = r
                /\ IF r.raised
                   THEN /\ outcome' = "bad_response"
                        /\ pc' = OnCallError("demo")
                        /\ UNCHANGED <<total_saved, last_added, reported_sum>>
                   ELSE /\ outcome' = "ok"
                        /\ pc' = "demo_loop"
                        /\ last_added' = IF TrackHit(resp.usage)
                                         THEN TrackSavings(resp.usage)
                                         ELSE 0
                        /\ total_saved' = total_saved + last_added'
                        /\ reported_sum' = reported_sum
                                           + (IF r.hit THEN r.savings ELSE 0)
    /\ UNCHANGED <<api_key, error_reported, choice, data_loaded,
                   conversation_history, request_count, user_input,
                   sent_messages, attempted, failed, requests_issued, turns_ok>>

\* The loop is over: the final summary.
DemoSummary ==
    /\ pc = "demo_loop"
    /\ i > Len(TestPrompts)
    /\ pc' = "demo_done"
    /\ UNCHANGED <<api_key, error_reported, choice, data_loaded, i, total_saved,
                   conversation_history, request_count, user_input, outstanding,
                   sent_messages, response, report, outcome, attempted, failed,
                   requests_issued, requests_processed, reported_sum, last_added,
                   turns_ok>>

\* interactive_mode up to the loop.
ChatInit ==
    /\ pc = "chat_init"
    /\ data_loaded' = TRUE
    /\ conversation_history' = <<>>
    /\ request_count' = 0
    /\ pc' = "chat_input"
    /\ UNCHANGED <<api_key, error_reported, choice, i, total_saved,
                   user_input, outstanding,
                   sent_messages, response, report, outcome, attempted, failed,
                   requests_issued, requests_processed, reported_sum, last_added,
                   turns_ok>>

\* One iteration up to the call: read a line; leave, go round, or send.
ChatInput(raw) ==
    /\ pc = "chat_input"
    /\ user_input' = Strip(raw)
    /\ IF Lower(user_input') \in ExitWords
       THEN /\ pc' = "done"
            /\ UNCHANGED <<request_count, outstanding, sent_messages, response,
                           report, outcome, requests_issued, last_added>>
       ELSE IF user_input' = <<>>
       THEN /\ pc' = "chat_input"
            /\ UNCHANGED <<request_count, outstanding, sent_messages, response,
                           report, outcome, requests_issued, last_added>>
       ELSE /\ request_count < MaxTurns
            /\ request_count' = request_count + 1
            /\ sent_messages' = conversation_history
                                \o << [role |-> "user", content |-> user_input'] >>
            /\ outstanding' = outstanding + 1
            /\ requests_issued' = requests_issued + 1
            /\ response' = <<>>
            /\ report' = NoReport
            /\ outcome' = "pending"
            /\ last_added' = 0
            /\ pc' = AfterCreate("chat")
    /\ UNCHANGED <<api_key, error_reported, choice, data_loaded, i, total_saved,
                   conversation_history, attempted, failed,
                   requests_processed, reported_sum, turns_ok>>

\* The call raises: the except clause prints and the loop goes on.
ChatCallFails ==
    /\ pc = "chat_await"
    /\ outstanding' = outstanding - 1
    /\ outcome' = "error"
    /\ requests_processed' = requests_processed + 1
    /\ pc' = OnCallError("chat")
    /\ UNCHANGED <<api_key, error_reported, choice, data_loaded, i, total_saved,
                   conversation_history, request_count, user_input,
                   sent_messages, response, report, attempted, failed,
                   requests_issued, reported_sum, last_added, turns_ok>>

\* The call returns: print the answer, update the history, analysis.
ChatCallReturns(resp) ==
    /\ pc = "chat_await"
    /\ outstanding' = outstanding - 1
    /\ response' = <<resp>>
    /\ requests_processed' = requests_processed + 1
    /\ IF resp.content = <<>>
       THEN \* response.content[0] raises IndexError
            /\ outcome' = "bad_response"
            /\ pc' = OnCallError("chat")
            /\ UNCHANGED <<conversation_history, report, turns_ok>>
       ELSE LET r == print_cache_analysis(resp.usage)
            IN  /\ conversation_history' =
                       UpdateHistory(conversation_history, user_input,
                                     resp.content[1].text)
                /\ turns_ok' = turns_ok + 1
                /\ report' = r
                /\ IF r.raised
                   THEN /\ outcome' = "bad_response"
                        /\ pc' = OnCallError("chat")
                   ELSE /\ outcome' = "ok"
                        /\ pc' = "chat_input"
    /\ UNCHANGED <<api_key, error_reported, choice, data_loaded, i, total_saved,
                   request_count, user_input, sent_messages, attempted, failed,
                   requests_issued, reported_sum, last_added>>

Next ==
    \/ MainNoKey
    \/ \E raw \in RawChoices : MainChoose(raw)
    \/ LoadFails
    \/ DemoInit
    \/ DemoIssue
    \/ DemoCallFails
    \/ \E resp \in Responses : DemoCallReturns(resp)
    \/ DemoSummary
    \/ ChatInit
    \/ \E raw \in RawInputs : ChatInput(raw)
    \/ ChatCallFails
    \/ \E resp \in Responses : ChatCallReturns(resp)

Spec == Init /\ [][Next]_vars

--------------------------------------------------------------------------
(* Properties *)

\* The usage record of the response handled in this turn.
ReportUsage == response[1].usage

\* The counter's value, 0 when the attribute is missing.
Counter(usage, name) == IF name \in DOMAIN usage THEN usage[name] ELSE 0

\* (inputTokens + cacheReadTokens) * baseRate, for any usage record.
CostWithoutCacheOf(usage) ==
    (usage.input_tokens + Counter(usage, "cache_read_input_tokens")) * BaseRate

\* The savings percents a report shows (none or one), as numerators.
PercentsOf(r) == IF "savings_percent" \in DOMAIN r THEN {r.savings_percent.num} ELSE {}

\* The costs a cache-miss report shows (none or one).
MissCostsOf(r) ==
    (IF "creation_cost" \in DOMAIN r THEN {r.creation_cost} ELSE {})
    \cup (IF "cost_with_cache" \in DOMAIN r THEN {r.cost_with_cache} ELSE {})

\* Roles alternate user, assistant, ... from a user entry.
Alternates(h) ==
    \A k \in 1..Len(h) : h[k].role = IF k % 2 = 1 THEN "user" ELSE "assistant"

\* C1: in interactive_mode the conversation history never has more than 10
\* entries, and the history prepended to a request (all but the last message
\* sent) is that history, so it has at most 10 entries too.
C1_HistoryBounded ==
    /\ Len(conversation_history) <= 10
    /\ pc = "chat_await" =>
         /\ Len(sent_messages) <= 11
         /\ SubSeq(sent_messages, 1, Len(sent_messages) - 1) = conversation_history

\* C1 witness: a request goes out after the history was truncated to 10.
C1_Witness ==
    pc = "chat_await" /\ turns_ok > 5 /\ Len(conversation_history) = 10

\* C2: with the credential unset or empty, main reports the error and returns:
\* no mode choice is read, the data file is not loaded, no request is issued.
C2_NoKeyNoWork ==
    api_key \in {"unset", ""} =>
        /\ requests_issued = 0
        /\ outstanding = 0
        /\ choice = <<>>
        /\ ~data_loaded
        /\ pc \in {"start", "done"}
        /\ pc = "done" => error_reported

\* C2 witness: main has returned in a run whose credential is the empty string.
C2_Witness == api_key = "" /\ pc = "done" /\ error_reported

\* C3: a failed call never aborts the run.  demonstrate_caching attempts the
\* prompts 1, 2, 3, 4 once each and in order whatever calls fail, it can always
\* take its next step until the summary, and the summary comes after all four;
\* in both loops a failed call leads back to the head of the loop.
C3_InOrderOnce ==
    /\ pc \in {"demo_loop", "demo_await", "demo_done"} =>
         /\ attempted = [k \in 1..Len(attempted) |-> k]
         /\ Len(attempted) = IF pc = "demo_await" THEN i ELSE i - 1
         /\ failed \subseteq 1..Len(attempted)
    /\ pc = "demo_done" => attempted = <<1, 2, 3, 4>>
    /\ pc \in {"demo_loop", "demo_await"} =>
         ENABLED (DemoIssue \/ DemoCallFails \/ DemoSummary
                  \/ \E resp \in Responses : DemoCallReturns(resp))
    /\ pc = "aborted" => requests_issued = 0

C3_FailureGoesOn ==
    /\ (pc = "demo_await" /\ outcome' = "error") => (pc' = "demo_loop" /\ i' = i + 1)
    /\ (pc = "chat_await" /\ outcome' = "error") => pc' = "chat_input"

C3_FailureIsolated == [] C3_InOrderOnce /\ [][C3_FailureGoesOn]_vars

\* C3 witness: the summary is reached in a run where prompts 1 and 3 failed.
C3_Witness == pc = "demo_done" /\ failed = {1, 3}

\* C4: the report says cache hit exactly when the counter cacheReadTokens is
\* present and > 0, and demonstrate_caching adds to the running total exactly
\* for the responses the report calls a hit.
C4_HitIffCacheRead ==
    report.ran =>
        /\ report.hit <=> Counter(ReportUsage, "cache_read_input_tokens") > 0
        /\ (choice = << <<"1">> >> /\ outcome = "ok") =>
               (last_added # 0 <=> report.hit)

\* C4 witness: a response with the counter at 0 was reported as a miss.
C4_Witness ==
    /\ report.ran
    /\ ~report.hit
    /\ "cache_read_input_tokens" \in DOMAIN ReportUsage
    /\ choice = << <<"1">> >>

\* C5: on a cache hit, with the cache-read rate below the base rate, the cost
\* with cache, inputTokens*baseRate + cacheReadTokens*cacheReadRate, is at most
\* the cost without cache, (inputTokens + cacheReadTokens)*baseRate, so the
\* savings are not negative.
C5_HitCostNoMore ==
    (report.ran /\ report.hit /\ CacheReadRate < BaseRate) =>
        /\ report.cost_with_cache =
               ReportUsage.input_tokens * BaseRate
               + ReportUsage.cache_read_input_tokens * CacheReadRate
        /\ report.cost_without_cache = CostWithoutCacheOf(ReportUsage)
        /\ report.cost_with_cache <= report.cost_without_cache
        /\ report.savings >= 0

\* C5 witness: a hit with fresh input tokens as well.
C5_Witness == report.ran /\ report.hit /\ ReportUsage.input_tokens > 0

\* C6 as stated: when costWithoutCache is 0 the analysis reports a savings
\* percent of 0 and does not fail.
C6_ReportsZeroPercent ==
    (report.ran /\ CostWithoutCacheOf(ReportUsage) = 0) =>
        /\ ~report.raised
        /\ PercentsOf(report) = {0}

\* C6 as amended: the analysis never divides by a zero costWithoutCache; when
\* costWithoutCache is 0 the response is a cache miss and no savings percent
\* is computed at all; a savings percent that is computed is above 0.
C6_NoDivisionByZero ==
    /\ ~report.raised
    /\ (report.ran /\ CostWithoutCacheOf(ReportUsage) = 0) =>
           (~report.hit /\ PercentsOf(report) = {})
    /\ "savings_percent" \in DOMAIN report =>
           (report.savings_percent.den > 0 /\ report.savings_percent.num > 0)

\* C6 witness: a response with inputTokens = 0 and cacheReadTokens = 0 analysed.
C6_Witness ==
    /\ report.ran
    /\ "cache_read_input_tokens" \in DOMAIN ReportUsage
    /\ CostWithoutCacheOf(ReportUsage) = 0

\* C7 as stated: on a miss the analysis computes the cost
\* cacheCreationTokens*cacheWriteRate when cacheCreationTokens > 0 and
\* inputTokens*baseRate when there is no cache creation.
C7_MissCostAsStated ==
    (report.ran /\ ~report.hit) =>
        MissCostsOf(report) =
            IF Counter(ReportUsage, "cache_creation_input_tokens") > 0
            THEN {ReportUsage.cache_creation_input_tokens * CacheWriteRate}
            ELSE {ReportUsage.input_tokens * BaseRate}

\* C7 as amended: on a miss the analysis computes the cost
\* cacheCreationTokens*cacheWriteRate when cacheCreationTokens > 0 and no cost
\* at all when there is no cache creation.
C7_MissCost ==
    (report.ran /\ ~report.hit) =>
        MissCostsOf(report) =
            IF Counter(ReportUsage, "cache_creation_input_tokens") > 0
            THEN {ReportUsage.cache_creation_input_tokens * CacheWriteRate}
            ELSE {}

\* C7 witness: a miss with cache creation and fresh input tokens.
C7_Witness ==
    /\ report.ran
    /\ ~report.hit
    /\ "creation_cost" \in DOMAIN report
    /\ ReportUsage.input_tokens > 0

\* C8: at most one request is outstanding, one is outstanding exactly while
\* control waits in the call, and every request issued earlier has been fully
\* handled (failed, or returned and analysed with the savings or history
\* updated), so a request is issued only after the one before it is handled.
C8_Sequential ==
    /\ outstanding \in {0, 1}
    /\ outstanding = 1 <=> pc \in {"demo_await", "chat_await"}
    /\ requests_issued = requests_processed + outstanding
    /\ outstanding = 1 => (outcome = "pending" /\ response = <<>> /\ ~report.ran)

\* C8 witness: the third request of demonstrate_caching is outstanding.
C8_Witness == pc = "demo_await" /\ requests_issued = 3 /\ outstanding = 1

\* C9: total_saved starts at 0, never decreases, is left unchanged by a failed
\* call and by a cache miss, and equals the sum of the savings the reports
\* showed for the cache hits, in particular at the final summary.
C9_TotalIsSum ==
    /\ total_saved >= 0
    /\ (pc = "demo_loop" /\ i = 1) => total_saved = 0
    /\ total_saved = reported_sum

C9_TotalSteps ==
    /\ total_saved' >= total_saved
    /\ (pc = "demo_await" /\ outcome' = "error") => total_saved' = total_saved
    /\ (pc = "demo_await" /\ report'.ran /\ ~report'.hit) =>
           total_saved' = total_saved

C10_HistoryShape ==
    /\ Len(conversation_history) % 2 = 0
    /\ Alternates(conversation_history)
    /\ pc = "chat_await" =>
         /\ Alternates(sent_messages)
         /\ Len(sent_messages) % 2 = 1
         /\ sent_messages[1].role = "user"
         /\ sent_messages[Len(sent_messages)].role = "user"

C10_HistorySteps ==
    /\ conversation_history' # conversation_history =>
         (pc = "chat_await" /\ response' # <<>> /\ outcome' # "error")
    /\ outcome' = "error" => conversation_history' = conversation_history
    /\ pc = "chat_input" => conversation_history' = conversation_history

C10_HistoryFrame == [] C10_HistoryShape /\ [][C10_HistorySteps]_vars

\* C10 witness: a call failed after the history had been truncated.
C10_Witness ==
    /\ pc = "chat_input"
    /\ outcome = "error"
    /\ turns_ok > 5
    /\ Len(conversation_history) = 10

====
